---- MODULE Spec2Model ----
(***************************************************************************)
(* ClauseGuard: the standard-clause taxonomy service                       *)
(* (myapp/services/contract_clause_mapping.py).                            *)
(*                                                                         *)
(* A Python str is a sequence of characters.  A contract type, a           *)
(* jurisdiction and a profile key are sequences of the segments that '_'   *)
(* separates, so that f"{contract_type}_{jurisdiction}" is concatenation.  *)
(* Optional values are sequences of length 0 (None) or 1.                  *)
(***************************************************************************)
EXTENDS Integers, Sequences, FiniteSets, TLC

\* ------------------------------------------------------------- bounds
MaxClauses == 2      \* clauses declared in one profile
MaxFound == 2        \* names in a found_clause_types list
NumThreads == 2      \* threads constructing the mapper
MaxCalls == 3        \* constructions / get_mapper() calls in one run

\* ------------------------------------------------------------ values
None == <<>>
Some(x) == <<x>>
Range(s) == {s[i] : i \in 1..Len(s)}

Chars == {"A", "a", "b"}
Names == {<<c>> : c \in Chars} \cup {<<c, d>> : c \in Chars, d \in Chars}

\* str.lower(), character by character
LowerChar(c) == IF c = "A" THEN "a" ELSE IF c = "B" THEN "b" ELSE c
Lower(s) == [i \in 1..Len(s) |-> LowerChar(s[i])]

\* Python's  a in b  on two str values: a is a contiguous part of b
IsSubstring(a, b) ==
    \E k \in 0..(Len(b) - Len(a)) : \A i \in 1..Len(a) : b[k + i] = a[i]

\* a str is truthy iff it is not empty
Truthy(s) == s # <<>>

\* dict.get(k, default) on a dict modelled as a function
DictGet(d, k, default) == IF k \in DOMAIN d THEN d[k] ELSE default

Tiers == <<"critical", "important", "optional">>
Categories == <<"critical_clauses", "important_clauses", "optional_clauses">>

\* ------------------------------------------------- the reference data
\* data/standard_clauses.json: keyed by "{CONTRACT_TYPE}_{JURISDICTION}", each
\* value holding the three clause-tier arrays of {id, type, priority,
\* recommendations, standard_text} entries.  ids and types are unique within
\* a profile.  A loaded document is the dict in insertion order: a sequence of
\* [key, value] items with distinct keys.
ContractTypes == {<<"SERVICE", "AGREEMENT">>, <<"NDA">>}
Jurisdictions == {<<"INDIA">>}
SA_INDIA == <<"SERVICE", "AGREEMENT", "INDIA">>
NDA_INDIA == <<"NDA", "INDIA">>

\* standard clause names are capitalised: "A", "Aa", "Ab"
StdTypes == {n \in Names : n[1] = "A" /\ \A i \in 2..Len(n) : n[i] # "A"}

Clause(i, name, tier) ==
    [id |-> i, type |-> name, priority |-> tier,
     recommendations |-> <<"recommendations", i>>,
     standard_text |-> <<"standard_text", i>>]

\* a declaration: for each clause, in file order, its name and its tier
Declarations ==
    UNION {{d \in [1..n -> StdTypes \X Range(Tiers)] :
               \A i, j \in 1..n : i # j => d[i][1] # d[j][1]} : n \in 0..MaxClauses}

TierOf(d, tier) ==
    LET all == [i \in 1..Len(d) |-> Clause(i, d[i][1], d[i][2])]
        Keep(c) == c.priority = tier
    IN SelectSeq(all, Keep)

ProfileOf(d) ==
    [critical_clauses |-> TierOf(d, "critical"),
     important_clauses |-> TierOf(d, "important"),
     optional_clauses |-> TierOf(d, "optional")]

\* the same profile with the optional_clauses field left out of the file
WithoutOptional(p) == [k \in {"critical_clauses", "important_clauses"} |-> p[k]]

CompleteProfiles == {ProfileOf(d) : d \in Declarations}
IncompleteProfiles ==
    {WithoutOptional(p) : p \in {q \in CompleteProfiles :
        q.optional_clauses = <<>> /\ q.important_clauses = <<>>}}
Profiles == CompleteProfiles \cup IncompleteProfiles

Item(k, p) == [key |-> k, value |-> p]
NdaProfile == ProfileOf(<< <<(<<"A", "b">>), "important">> >>)

\* documents the file can hold: no profile, one profile, two profiles
EmptyDocument == <<>>
SampleProfile ==
    ProfileOf(<< <<(<<"A">>), "critical">>, <<(<<"A", "b">>), "important">> >>)
Documents ==
    {EmptyDocument}
    \cup {<<Item(SA_INDIA, p)>> : p \in Profiles}
    \cup {<<Item(NDA_INDIA, NdaProfile), Item(SA_INDIA, SampleProfile)>>}

\* the file on disk: missing, not JSON, the JSON text  null , or JSON text of
\* a document
Absent == [kind |-> "absent", doc |-> EmptyDocument]
Unparsable == [kind |-> "unparsable", doc |-> EmptyDocument]
JsonNull == [kind |-> "null", doc |-> EmptyDocument]
Json(doc) == [kind |-> "json", doc |-> doc]

\* json.load(f): Python's None for the text  null , else the document
json_load(file) == IF file.kind = "null" THEN None ELSE Some(file.doc)

\* ------------------------------------------------------------- state
VARIABLES
    resource,           \* data/standard_clauses.json on disk
    _instance,          \* ContractClauseMapper._instance
    _standard_clauses,  \* ContractClauseMapper._standard_clauses
    _mapper,            \* module global _mapper
    allocated,          \* ContractClauseMapper objects created so far
    reads,              \* times _load_clauses opened the file
    loads,              \* times _load_clauses stored parsed data
    returned,           \* objects handed to a caller so far
    calls,              \* constructions / get_mapper() calls begun
    pc,                 \* per thread: the statement it is at
    self_,              \* per thread: the object __new__ returned
    caller,             \* per thread: "ctor" or "get_mapper"
    exc,                \* per thread: the exception its last call raised
    ret,                \* the last call and what it handed its caller
    analysis,           \* the ContractAnalysis row of the uploaded contract
    job                 \* the analyze_contract run of the background thread

vars == <<resource, _instance, _standard_clauses, _mapper, allocated, reads,
          loads, returned, calls, pc, self_, caller, exc, ret, analysis, job>>
lifecycle == <<resource, _instance, _standard_clauses, _mapper, allocated, reads,
               loads, returned, calls, pc, self_, caller, exc>>
records == <<analysis, job>>

Threads == 1..NumThreads

\* ------------------------------------------------ dict operations
HasKey(doc, k) == \E i \in 1..Len(doc) : doc[i].key = k
Lookup(doc, k) == doc[CHOOSE i \in 1..Len(doc) : doc[i].key = k].value
Keys(doc) == [i \in 1..Len(doc) |-> doc[i].key]

\* ------------------------------------------------------- the queries
\* Each takes sc, the dict that self._standard_clauses holds.

\* list(self._standard_clauses.keys())
\* (variant: the keys are listed last first)
get_all_contract_types_reversed(sc) ==
    [i \in 1..Len(sc) |-> sc[Len(sc) + 1 - i].key]
get_all_contract_types(sc) == Keys(sc)

EmptyTiers ==
    [critical_clauses |-> <<>>, important_clauses |-> <<>>, optional_clauses |-> <<>>]

\* (variant: an unknown key falls back to the first loaded profile)
get_standard_clauses_first_profile(sc, contract_type, jurisdiction) ==
    LET key == contract_type \o jurisdiction
        contract_data == IF HasKey(sc, key) THEN Lookup(sc, key)
                         ELSE IF sc # <<>> THEN sc[1].value ELSE EmptyTiers
    IN [critical_clauses |-> DictGet(contract_data, "critical_clauses", <<>>),
        important_clauses |-> DictGet(contract_data, "important_clauses", <<>>),
        optional_clauses |-> DictGet(contract_data, "optional_clauses", <<>>)]

\* (variant: the key is built jurisdiction first)
get_standard_clauses_swapped_key(sc, contract_type, jurisdiction) ==
    LET key == jurisdiction \o contract_type
    IN IF ~HasKey(sc, key)
       THEN EmptyTiers
       ELSE LET contract_data == Lookup(sc, key)
            IN [critical_clauses |-> DictGet(contract_data, "critical_clauses", <<>>),
                important_clauses |-> DictGet(contract_data, "important_clauses", <<>>),
                optional_clauses |-> DictGet(contract_data, "optional_clauses", <<>>)]

\* key = f"{contract_type}_{jurisdiction}"
get_standard_clauses_for_type(sc, contract_type, jurisdiction) ==
    LET key == contract_type \o jurisdiction
    IN IF ~HasKey(sc, key)
       THEN EmptyTiers
       ELSE LET contract_data == Lookup(sc, key)
            IN [critical_clauses |-> DictGet(contract_data, "critical_clauses", <<>>),
                important_clauses |-> DictGet(contract_data, "important_clauses", <<>>),
                optional_clauses |-> DictGet(contract_data, "optional_clauses", <<>>)]

get_critical_clauses_for_type(sc, contract_type, jurisdiction) ==
    DictGet(get_standard_clauses_for_type(sc, contract_type, jurisdiction),
            "critical_clauses", <<>>)

get_important_clauses_for_type(sc, contract_type, jurisdiction) ==
    DictGet(get_standard_clauses_for_type(sc, contract_type, jurisdiction),
            "important_clauses", <<>>)

get_optional_clauses_for_type(sc, contract_type, jurisdiction) ==
    DictGet(get_standard_clauses_for_type(sc, contract_type, jurisdiction),
            "optional_clauses", <<>>)

\* the nested loops  for category in [...]: for clause in all_clauses.get(category, [])
\* visit the clauses in this order
Tag(category, clauses) ==
    [i \in 1..Len(clauses) |-> [category |-> category, clause |-> clauses[i]]]
ScanOrder(all_clauses) ==
    Tag("critical_clauses", DictGet(all_clauses, "critical_clauses", <<>>))
    \o Tag("important_clauses", DictGet(all_clauses, "important_clauses", <<>>))
    \o Tag("optional_clauses", DictGet(all_clauses, "optional_clauses", <<>>))

\* the first visited entry whose clause has clause[field] == value, or None
FirstMatch(all_clauses, field, value) ==
    LET scan == ScanOrder(all_clauses)
        hits == {i \in 1..Len(scan) : scan[i].clause[field] = value}
    IN IF hits = {} THEN None
       ELSE Some(scan[CHOOSE i \in hits : \A j \in hits : i <= j])

\* priority.replace('_clauses', '')
\* (variant: the tier field name is returned as it is)
StripClausesKept(category) == category
StripClauses(category) ==
    IF category = "critical_clauses" THEN "critical"
    ELSE IF category = "important_clauses" THEN "important" ELSE "optional"

\* (variant: the type names are compared with letter case ignored)
is_clause_standard_casefold(sc, clause_type, contract_type, jurisdiction) ==
    LET scan == ScanOrder(get_standard_clauses_for_type(sc, contract_type, jurisdiction))
    IN \E i \in 1..Len(scan) : Lower(scan[i].clause.type) = Lower(clause_type)

is_clause_standard(sc, clause_type, contract_type, jurisdiction) ==
    FirstMatch(get_standard_clauses_for_type(sc, contract_type, jurisdiction),
               "type", clause_type) # None

get_clause_priority(sc, clause_type, contract_type, jurisdiction) ==
    LET m == FirstMatch(get_standard_clauses_for_type(sc, contract_type, jurisdiction),
                        "type", clause_type)
    IN IF m = None THEN None ELSE Some(StripClauses(m[1].category))

\* (variant: only the critical and important tiers are searched)
get_clause_by_id_two_tiers(sc, clause_id, contract_type, jurisdiction) ==
    LET all_clauses == get_standard_clauses_for_type(sc, contract_type, jurisdiction)
        m == FirstMatch([all_clauses EXCEPT !["optional_clauses"] = <<>>],
                        "id", clause_id)
    IN IF m = None THEN None ELSE Some(m[1].clause)

get_clause_by_id(sc, clause_id, contract_type, jurisdiction) ==
    LET m == FirstMatch(get_standard_clauses_for_type(sc, contract_type, jurisdiction),
                        "id", clause_id)
    IN IF m = None THEN None ELSE Some(m[1].clause)

get_clause_recommendations(sc, clause_type, contract_type, jurisdiction) ==
    LET m == FirstMatch(get_standard_clauses_for_type(sc, contract_type, jurisdiction),
                        "type", clause_type)
    IN IF m = None THEN None ELSE Some(m[1].clause.recommendations)

get_clause_standard_text(sc, clause_type, contract_type, jurisdiction) ==
    LET m == FirstMatch(get_standard_clauses_for_type(sc, contract_type, jurisdiction),
                        "type", clause_type)
    IN IF m = None THEN None ELSE Some(m[1].clause.standard_text)

\* (variant: the important tier is appended before the critical tier)
get_all_clauses_flat_important_first(sc, contract_type, jurisdiction) ==
    LET all_clauses == get_standard_clauses_for_type(sc, contract_type, jurisdiction)
    IN DictGet(all_clauses, "important_clauses", <<>>)
       \o DictGet(all_clauses, "critical_clauses", <<>>)
       \o DictGet(all_clauses, "optional_clauses", <<>>)

\* (variant: the critical tier is appended twice)
get_all_clauses_flat_critical_twice(sc, contract_type, jurisdiction) ==
    LET all_clauses == get_standard_clauses_for_type(sc, contract_type, jurisdiction)
    IN DictGet(all_clauses, "critical_clauses", <<>>)
       \o DictGet(all_clauses, "critical_clauses", <<>>)
       \o DictGet(all_clauses, "important_clauses", <<>>)
       \o DictGet(all_clauses, "optional_clauses", <<>>)

get_all_clauses_flat(sc, contract_type, jurisdiction) ==
    LET all_clauses == get_standard_clauses_for_type(sc, contract_type, jurisdiction)
    IN DictGet(all_clauses, "critical_clauses", <<>>)
       \o DictGet(all_clauses, "important_clauses", <<>>)
       \o DictGet(all_clauses, "optional_clauses", <<>>)

\* found_lower = [c.lower() for c in found_clause_types]
found_lower_raw(found_clause_types) == found_clause_types
found_lower(found_clause_types) ==
    [i \in 1..Len(found_clause_types) |-> Lower(found_clause_types[i])]

\* if clause_name and clause_name.lower() not in found_lower
\* (variants: the clause name compared as written; a found name that is part
\* of the clause name counted as a match)
is_missing_nolower(clause_name, lowered) ==
    Truthy(clause_name) /\ clause_name \notin Range(lowered)
is_missing_substring(clause_name, lowered) ==
    Truthy(clause_name)
    /\ ~\E i \in 1..Len(lowered) : IsSubstring(lowered[i], Lower(clause_name))
is_missing(clause_name, lowered) ==
    Truthy(clause_name) /\ Lower(clause_name) \notin Range(lowered)

\* one  for clause in all_clauses.get(tier, [])  loop of find_missing_clauses:
\* the list after the first n clauses have been visited
RECURSIVE missing_after(_, _, _)
missing_after(clauses, lowered, n) ==
    IF n = 0 THEN <<>>
    ELSE LET clause_name == clauses[n].type
             sofar == missing_after(clauses, lowered, n - 1)
         IN IF is_missing(clause_name, lowered)
            THEN Append(sofar, clause_name)
            ELSE sofar

missing_in(clauses, lowered) == missing_after(clauses, lowered, Len(clauses))

find_missing_clauses(sc, found_clause_types, contract_type, jurisdiction) ==
    LET all_clauses == get_standard_clauses_for_type(sc, contract_type, jurisdiction)
        lowered == found_lower(found_clause_types)
    IN [missing_critical |->
            missing_in(DictGet(all_clauses, "critical_clauses", <<>>), lowered),
        missing_important |->
            missing_in(DictGet(all_clauses, "important_clauses", <<>>), lowered),
        missing_optional |->
            missing_in(DictGet(all_clauses, "optional_clauses", <<>>), lowered)]

\* --------------------------------------- construction and loading
\* Threads run ContractClauseMapper() and get_mapper() with no lock; a thread
\* switch can fall between any two statements.

SampleDocuments ==
    {EmptyDocument,
     <<Item(SA_INDIA, SampleProfile)>>,
     <<Item(SA_INDIA, WithoutOptional(SampleProfile))>>}
Resources == {Absent, Unparsable, JsonNull} \cup {Json(d) : d \in SampleDocuments}

NoCall == [op |-> "none"]
\* no analyze_contract run has been started; steps lists the steps done so
\* far, defaulted the LLM steps that fell back to their default result
NoJob ==
    [pc |-> "none", contract_type |-> <<>>, jurisdiction |-> <<>>,
     contract_text |-> None, summary_data |-> None, clauses_data |-> None,
     chromadb_comparisons |-> None, risks_data |-> None,
     missing_clauses |-> None, suggestions_data |-> None,
     result |-> None, raised |-> None, steps |-> <<>>,
     defaulted |-> {}]

Init ==
    /\ resource \in Resources
    /\ _instance = None
    /\ _standard_clauses = None
    /\ _mapper = None
    /\ allocated = 0
    /\ reads = 0
    /\ loads = 0
    /\ returned = {}
    /\ calls = 0
    /\ pc = [t \in Threads |-> "idle"]
    /\ self_ = [t \in Threads |-> None]
    /\ caller = [t \in Threads |-> "none"]
    /\ exc = [t \in Threads |-> "none"]
    /\ ret = NoCall
    /\ analysis = None
    /\ job = NoJob

\* a caller starts get_mapper()
CallGetMapper(t) ==
    /\ pc[t] = "idle"
    /\ calls < MaxCalls
    /\ calls' = calls + 1
    /\ pc' = [pc EXCEPT ![t] = "gm_check"]
    /\ caller' = [caller EXCEPT ![t] = "get_mapper"]
    /\ exc' = [exc EXCEPT ![t] = "none"]
    /\ UNCHANGED <<resource, _instance, _standard_clauses, _mapper, allocated,
                   reads, loads, returned, self_, ret, analysis, job>>

\* a caller starts ContractClauseMapper()
CallConstructor(t) ==
    /\ pc[t] = "idle"
    /\ calls < MaxCalls
    /\ calls' = calls + 1
    /\ pc' = [pc EXCEPT ![t] = "new_check"]
    /\ caller' = [caller EXCEPT ![t] = "ctor"]
    /\ exc' = [exc EXCEPT ![t] = "none"]
    /\ UNCHANGED <<resource, _instance, _standard_clauses, _mapper, allocated,
                   reads, loads, returned, self_, ret, analysis, job>>

\* get_mapper:  if _mapper is None
GmCheck(t) ==
    /\ pc[t] = "gm_check"
    /\ pc' = [pc EXCEPT ![t] = IF _mapper = None THEN "new_check" ELSE "gm_return"]
    /\ UNCHANGED <<resource, _instance, _standard_clauses, _mapper, allocated,
                   reads, loads, returned, calls, self_, caller, exc, ret, analysis, job>>

\* __new__:  if cls._instance is None
NewTestAlways(inst) == TRUE
NewTest(inst) == inst = None
NewCheck(t) ==
    /\ pc[t] = "new_check"
    /\ pc' = [pc EXCEPT ![t] = IF NewTest(_instance) THEN "new_create" ELSE "new_return"]
    /\ UNCHANGED <<resource, _instance, _standard_clauses, _mapper, allocated,
                   reads, loads, returned, calls, self_, caller, exc, ret, analysis, job>>

\* __new__:  cls._instance = super().__new__(cls)
NewCreate(t) ==
    /\ pc[t] = "new_create"
    /\ allocated' = allocated + 1
    /\ _instance' = Some(allocated + 1)
    /\ pc' = [pc EXCEPT ![t] = "new_return"]
    /\ UNCHANGED <<resource, _standard_clauses, _mapper, reads, loads, returned,
                   calls, self_, caller, exc, ret, analysis, job>>

\* __new__:  return cls._instance
NewReturn(t) ==
    /\ pc[t] = "new_return"
    /\ self_' = [self_ EXCEPT ![t] = _instance]
    /\ pc' = [pc EXCEPT ![t] = "init_check"]
    /\ UNCHANGED <<resource, _instance, _standard_clauses, _mapper, allocated,
                   reads, loads, returned, calls, caller, exc, ret, analysis, job>>

\* __init__:  if self._standard_clauses is None
InitTestAlways(sc) == TRUE
InitTest(sc) == sc = None
InitCheck(t) ==
    /\ pc[t] = "init_check"
    /\ pc' = [pc EXCEPT ![t] = IF InitTest(_standard_clauses) THEN "load" ELSE "ctor_return"]
    /\ UNCHANGED <<resource, _instance, _standard_clauses, _mapper, allocated,
                   reads, loads, returned, calls, self_, caller, exc, ret, analysis, job>>

\* what open() and json.load() make of the file: the exception raised, or none
LoadError(file) ==
    IF file.kind = "absent" THEN "FileNotFoundError"
    ELSE IF file.kind = "unparsable" THEN "ValueError" ELSE "none"

\* _load_clauses: open the file and store json.load(f) in the class attribute;
\* an exception leaves __init__, the constructor and get_mapper.  loads counts
\* the times a document was stored.
LoadClauses(t) ==
    /\ pc[t] = "load"
    /\ reads' = reads + 1
    /\ IF LoadError(resource) = "none"
       THEN /\ _standard_clauses' = json_load(resource)
            /\ loads' = IF json_load(resource) = None THEN loads ELSE loads + 1
            /\ pc' = [pc EXCEPT ![t] = "ctor_return"]
            /\ exc' = exc
       ELSE /\ exc' = [exc EXCEPT ![t] = LoadError(resource)]
            /\ pc' = [pc EXCEPT ![t] = "idle"]
            /\ UNCHANGED <<_standard_clauses, loads, analysis, job>>
    /\ UNCHANGED <<resource, _instance, _mapper, allocated, returned, calls,
                   self_, caller, ret, analysis, job>>

\* ContractClauseMapper() hands the object to its caller
CtorReturn(t) ==
    /\ pc[t] = "ctor_return"
    /\ caller[t] = "ctor"
    /\ returned' = returned \cup {self_[t][1]}
    /\ pc' = [pc EXCEPT ![t] = "idle"]
    /\ UNCHANGED <<resource, _instance, _standard_clauses, _mapper, allocated,
                   reads, loads, calls, self_, caller, exc, ret, analysis, job>>

\* get_mapper:  _mapper = ContractClauseMapper()
GmAssign(t) ==
    /\ pc[t] = "ctor_return"
    /\ caller[t] = "get_mapper"
    /\ _mapper' = self_[t]
    /\ pc' = [pc EXCEPT ![t] = "gm_return"]
    /\ UNCHANGED <<resource, _instance, _standard_clauses, allocated, reads, loads,
                   returned, calls, self_, caller, exc, ret, analysis, job>>

\* get_mapper:  return _mapper
GmReturn(t) ==
    /\ pc[t] = "gm_return"
    /\ returned' = returned \cup {_mapper[1]}
    /\ pc' = [pc EXCEPT ![t] = "idle"]
    /\ UNCHANGED <<resource, _instance, _standard_clauses, _mapper, allocated,
                   reads, loads, calls, self_, caller, exc, ret, analysis, job>>

Step(t) ==
    \/ GmCheck(t)
    \/ NewCheck(t)
    \/ NewCreate(t)
    \/ NewReturn(t)
    \/ InitCheck(t)
    \/ LoadClauses(t)
    \/ CtorReturn(t)
    \/ GmAssign(t)
    \/ GmReturn(t)

Next ==
    \E t \in Threads :
        \/ CallGetMapper(t)
        \/ CallConstructor(t)
        \/ Step(t)

Spec == Init /\ [][Next]_vars

\* one caller at a time: a call starts only when no other call is under way
NoCallUnderWay == \A u \in Threads : pc[u] = "idle"

NextSeq ==
    \E t \in Threads :
        \/ NoCallUnderWay /\ CallGetMapper(t)
        \/ NoCallUnderWay /\ CallConstructor(t)
        \/ Step(t)

SeqSpec == Init /\ [][NextSeq]_vars

\* ------------------------------------------------ querying the mapper
\* The state after the first get_mapper() returned: the file held a document,
\* thread 1 loaded it and holds the mapper.  Each query reads
\* self._standard_clauses and hands its result to the caller.

FoundLists == UNION {[1..n -> Names] : n \in 0..MaxFound}
ClauseIds == 1..(MaxClauses + 1)

InitQuery ==
    /\ resource \in {Json(d) : d \in Documents}
    /\ _instance = Some(1)
    /\ _standard_clauses = Some(resource.doc)
    /\ _mapper = Some(1)
    /\ allocated = 1
    /\ reads = 1
    /\ loads = 1
    /\ returned = {1}
    /\ calls = 1
    /\ pc = [t \in Threads |-> "idle"]
    /\ self_ = [t \in Threads |-> IF t = 1 THEN Some(1) ELSE None]
    /\ caller = [t \in Threads |-> IF t = 1 THEN "get_mapper" ELSE "none"]
    /\ exc = [t \in Threads |-> "none"]
    /\ ret = NoCall
    /\ analysis = None
    /\ job = NoJob

\* the dict the mapper reads
Loaded == _standard_clauses[1]

CanQuery == returned # {} /\ _standard_clauses # None /\ ret = NoCall

QueryAllContractTypes ==
    /\ CanQuery
    /\ ret' = [op |-> "get_all_contract_types",
               result |-> get_all_contract_types(Loaded)]
    /\ UNCHANGED <<lifecycle, records>>

\* arguments a caller may pass: other letter case, the key cut elsewhere
ScopeTypes == ContractTypes \cup {<<"nda">>, <<"SERVICE">>}
ScopeJurisdictions == Jurisdictions \cup {<<"india">>, <<"AGREEMENT", "INDIA">>}

QueryStandardClauses ==
    /\ CanQuery
    /\ \E ct \in ScopeTypes, j \in ScopeJurisdictions :
          ret' = [op |-> "get_standard_clauses_for_type",
                  contract_type |-> ct, jurisdiction |-> j,
                  result |-> get_standard_clauses_for_type(Loaded, ct, j)]
    /\ UNCHANGED <<lifecycle, records>>

\* contract_type_key.rsplit('_', 1): the key cut at its last underscore
rsplit(key) ==
    IF Len(key) >= 2
    THEN <<SubSeq(key, 1, Len(key) - 1), SubSeq(key, Len(key), Len(key))>>
    ELSE <<key>>

\* for contract_type_key in get_all_contract_types(): the key is cut at its
\* last underscore and, when that gives two parts, looked up by the parts
QuerySplitKey ==
    /\ CanQuery
    /\ \E i \in 1..Len(get_all_contract_types(Loaded)) :
          LET contract_type_key == get_all_contract_types(Loaded)[i]
              parts == rsplit(contract_type_key)
          IN /\ Len(parts) = 2
             /\ ret' = [op |-> "split_key_lookup", key |-> contract_type_key,
                        contract_type |-> parts[1], jurisdiction |-> parts[2],
                        result |-> get_standard_clauses_for_type(
                                       Loaded, parts[1], parts[2])]
    /\ UNCHANGED <<lifecycle, records>>

QueryCriticalClauses ==
    /\ CanQuery
    /\ \E ct \in ContractTypes, j \in Jurisdictions :
          ret' = [op |-> "get_tier", tier |-> "critical",
                  contract_type |-> ct, jurisdiction |-> j,
                  result |-> get_critical_clauses_for_type(Loaded, ct, j)]
    /\ UNCHANGED <<lifecycle, records>>

QueryImportantClauses ==
    /\ CanQuery
    /\ \E ct \in ContractTypes, j \in Jurisdictions :
          ret' = [op |-> "get_tier", tier |-> "important",
                  contract_type |-> ct, jurisdiction |-> j,
                  result |-> get_important_clauses_for_type(Loaded, ct, j)]
    /\ UNCHANGED <<lifecycle, records>>

QueryOptionalClauses ==
    /\ CanQuery
    /\ \E ct \in ContractTypes, j \in Jurisdictions :
          ret' = [op |-> "get_tier", tier |-> "optional",
                  contract_type |-> ct, jurisdiction |-> j,
                  result |-> get_optional_clauses_for_type(Loaded, ct, j)]
    /\ UNCHANGED <<lifecycle, records>>

\* (variant: the list is built by extending the stored critical tier in place)
QueryAllClausesFlatInPlace ==
    /\ CanQuery
    /\ \E ct \in ContractTypes, j \in Jurisdictions :
          LET flat == get_all_clauses_flat(Loaded, ct, j)
              Extended(item) ==
                  IF item.key = ct \o j
                  THEN [item EXCEPT !.value = [@ EXCEPT !["critical_clauses"] = flat]]
                  ELSE item
          IN /\ ret' = [op |-> "get_all_clauses_flat",
                        contract_type |-> ct, jurisdiction |-> j,
                        result |-> flat]
             /\ _standard_clauses' =
                    Some([i \in 1..Len(Loaded) |-> Extended(Loaded[i])])
    /\ UNCHANGED <<resource, _instance, _mapper, allocated, reads, loads,
                   returned, calls, pc, self_, caller, exc, analysis, job>>

QueryAllClausesFlat ==
    /\ CanQuery
    /\ \E ct \in ContractTypes, j \in Jurisdictions :
          ret' = [op |-> "get_all_clauses_flat",
                  contract_type |-> ct, jurisdiction |-> j,
                  result |-> get_all_clauses_flat(Loaded, ct, j)]
    /\ UNCHANGED <<lifecycle, records>>

QueryFindMissing ==
    /\ CanQuery
    /\ \E found \in FoundLists, ct \in ContractTypes, j \in Jurisdictions :
          ret' = [op |-> "find_missing_clauses", found |-> found,
                  contract_type |-> ct, jurisdiction |-> j,
                  result |-> find_missing_clauses(Loaded, found, ct, j)]
    /\ UNCHANGED <<lifecycle, records>>

QueryClauseById ==
    /\ CanQuery
    /\ \E id \in ClauseIds, ct \in ContractTypes, j \in Jurisdictions :
          ret' = [op |-> "get_clause_by_id", clause_id |-> id,
                  contract_type |-> ct, jurisdiction |-> j,
                  result |-> get_clause_by_id(Loaded, id, ct, j)]
    /\ UNCHANGED <<lifecycle, records>>

QueryIsStandard ==
    /\ CanQuery
    /\ \E name \in Names, ct \in ContractTypes, j \in Jurisdictions :
          ret' = [op |-> "is_clause_standard", clause_type |-> name,
                  contract_type |-> ct, jurisdiction |-> j,
                  result |-> is_clause_standard(Loaded, name, ct, j)]
    /\ UNCHANGED <<lifecycle, records>>

QueryPriority ==
    /\ CanQuery
    /\ \E name \in Names, ct \in ContractTypes, j \in Jurisdictions :
          ret' = [op |-> "get_clause_priority", clause_type |-> name,
                  contract_type |-> ct, jurisdiction |-> j,
                  result |-> get_clause_priority(Loaded, name, ct, j)]
    /\ UNCHANGED <<lifecycle, records>>

QueryRecommendations ==
    /\ CanQuery
    /\ \E name \in Names, ct \in ContractTypes, j \in Jurisdictions :
          ret' = [op |-> "get_clause_recommendations", clause_type |-> name,
                  contract_type |-> ct, jurisdiction |-> j,
                  result |-> get_clause_recommendations(Loaded, name, ct, j)]
    /\ UNCHANGED <<lifecycle, records>>

QueryStandardText ==
    /\ CanQuery
    /\ \E name \in Names, ct \in ContractTypes, j \in Jurisdictions :
          ret' = [op |-> "get_clause_standard_text", clause_type |-> name,
                  contract_type |-> ct, jurisdiction |-> j,
                  result |-> get_clause_standard_text(Loaded, name, ct, j)]
    /\ UNCHANGED <<lifecycle, records>>

\* the caller is done with the result
Discard ==
    /\ ret # NoCall
    /\ ret' = NoCall
    /\ UNCHANGED <<lifecycle, records>>

NextQuery ==
    \/ QueryAllContractTypes
    \/ QueryStandardClauses
    \/ QuerySplitKey
    \/ QueryCriticalClauses
    \/ QueryImportantClauses
    \/ QueryOptionalClauses
    \/ QueryAllClausesFlat
    \/ QueryFindMissing
    \/ QueryClauseById
    \/ QueryIsStandard
    \/ QueryPriority
    \/ QueryRecommendations
    \/ QueryStandardText
    \/ Discard

QuerySpec == InitQuery /\ [][NextQuery]_vars

\* ------------------------------------------------ the output schemas
\* ClausesOutput, RisksOutput and SuggestionsOutput are pydantic models: the
\* keyword arguments fill the fields (an omitted one takes its default), then
\* the model_validator(mode='after') runs on the object.

MaxItems == 2

\* the lists of at most MaxItems items drawn from S
ItemLists(S) == UNION {[1..n -> S] : n \in 0..MaxItems}

ClauseItems == {[id |-> 1, type |-> <<"a">>, text |-> "text"],
                [id |-> 2, type |-> <<"b">>, text |-> "text"]}
RiskItems == {[id |-> 1, clause_type |-> <<"a">>, risk_level |-> "HIGH"],
              [id |-> 2, clause_type |-> <<"A", "b">>, risk_level |-> "LOW"]}
SuggestionItems == {[id |-> 1, priority |-> "HIGH", category |-> "Missing"],
                    [id |-> 2, priority |-> "LOW", category |-> "Wording"]}
MissingNames == {<<"A">>, <<"A", "b">>}

\* a keyword argument: omitted, or given one of the values
Kwarg(values) == {None} \cup {Some(v) : v \in values}
SuppliedTotals == 0..(MaxItems + 1)

\* the value a field takes from its keyword argument
FieldValue(kwarg, default) == IF kwarg = None THEN default ELSE kwarg[1]

\* (variant: the validator leaves the object as the arguments filled it)
ClausesOutput_calculate_total_skipped(self) == self
ClausesOutput_calculate_total(self) ==
    [self EXCEPT !.total_clauses = Len(self.clauses)]

ClausesOutput(kwargs) ==
    ClausesOutput_calculate_total(
        [clauses |-> FieldValue(kwargs.clauses, <<>>),
         total_clauses |-> FieldValue(kwargs.total_clauses, 0)])

RisksOutput_calculate_totals(self) ==
    [self EXCEPT !.total_risks = Len(self.risks),
                 !.total_missing = Len(self.missing_clauses)]

RisksOutput(kwargs) ==
    RisksOutput_calculate_totals(
        [risks |-> FieldValue(kwargs.risks, <<>>),
         missing_clauses |-> FieldValue(kwargs.missing_clauses, <<>>),
         total_risks |-> FieldValue(kwargs.total_risks, 0),
         total_missing |-> FieldValue(kwargs.total_missing, 0)])

SuggestionsOutput_calculate_total(self) ==
    [self EXCEPT !.total_suggestions = Len(self.suggestions)]

SuggestionsOutput(kwargs) ==
    SuggestionsOutput_calculate_total(
        [suggestions |-> FieldValue(kwargs.suggestions, <<>>),
         total_suggestions |-> FieldValue(kwargs.total_suggestions, 0)])

ConstructClausesOutput ==
    /\ ret = NoCall
    /\ \E clauses \in Kwarg(ItemLists(ClauseItems)),
          total_clauses \in Kwarg(SuppliedTotals) :
          LET kwargs == [clauses |-> clauses, total_clauses |-> total_clauses]
          IN ret' = [op |-> "ClausesOutput", kwargs |-> kwargs,
                     result |-> ClausesOutput(kwargs)]
    /\ UNCHANGED <<lifecycle, records>>

ConstructRisksOutput ==
    /\ ret = NoCall
    /\ \E risks \in Kwarg(ItemLists(RiskItems)),
          missing_clauses \in Kwarg(ItemLists(MissingNames)),
          total_risks \in Kwarg(SuppliedTotals),
          total_missing \in Kwarg(SuppliedTotals) :
          LET kwargs == [risks |-> risks, missing_clauses |-> missing_clauses,
                         total_risks |-> total_risks,
                         total_missing |-> total_missing]
          IN ret' = [op |-> "RisksOutput", kwargs |-> kwargs,
                     result |-> RisksOutput(kwargs)]
    /\ UNCHANGED <<lifecycle, records>>

ConstructSuggestionsOutput ==
    /\ ret = NoCall
    /\ \E suggestions \in Kwarg(ItemLists(SuggestionItems)),
          total_suggestions \in Kwarg(SuppliedTotals) :
          LET kwargs == [suggestions |-> suggestions,
                         total_suggestions |-> total_suggestions]
          IN ret' = [op |-> "SuggestionsOutput", kwargs |-> kwargs,
                     result |-> SuggestionsOutput(kwargs)]
    /\ UNCHANGED <<lifecycle, records>>

NextSchema ==
    \/ ConstructClausesOutput
    \/ ConstructRisksOutput
    \/ ConstructSuggestionsOutput
    \/ Discard

SchemaSpec == Init /\ [][NextSchema]_vars

\* ------------------------------------------------ the analysis run
\* upload_and_analyze_contract creates the Contract and ContractAnalysis
\* rows and starts analyze_contract in a background thread; the thread runs
\* the steps in order; get_analysis_results reads the row at any time.

MinTextLength == 100
MaxMissing == 10

INDIA == <<"INDIA">>
Users == {"owner", "other"}
\* request.POST['contract_type']: a type with a profile for INDIA, a profile
\* key, a type with no profile
PostedTypes == {<<"SERVICE", "AGREEMENT">>, SA_INDIA, <<"EMPLOYMENT">>}
UploadedFiles == {"none", "pdf", "not_pdf", "too_big"}

\* ContractAnalysis.objects.create(contract=contract, extraction_status='processing')
NewAnalysis(user) ==
    [user |-> user, extraction_status |-> "processing",
     summary |-> None, clauses |-> None, risks |-> None, suggestions |-> None,
     error_message |-> None, analysis_pdf |-> None,
     processing_time |-> None, analysed_at |-> None]

NewJob(contract_type, jurisdiction) ==
    [NoJob EXCEPT !.pc = "fetch", !.contract_type = contract_type,
                  !.jurisdiction = jurisdiction]

Row == analysis[1]

\* what extract_text_from_pdf gives: an error, or text of some stripped length
Extractions ==
    {[kind |-> "error", stripped |-> 0]}
    \cup {[kind |-> "text", stripped |-> n] :
             n \in {0, MinTextLength - 1, MinTextLength}}

\* (variant: only an empty text is refused)
extraction_error_empty_only(extracted) ==
    IF extracted.kind = "error" THEN Some("extraction error")
    ELSE IF extracted.stripped = 0
         THEN Some("PDF appears to be empty or unreadable")
         ELSE None

\* _extract_contract_text: the exception text, or None when text is returned
extraction_error(extracted) ==
    IF extracted.kind = "error" THEN Some("extraction error")
    ELSE IF extracted.stripped < MinTextLength
         THEN Some("PDF appears to be empty or unreadable")
         ELSE None

\* an LLM step's parsed response: None when the call, the JSON parse or the
\* validation failed, else the keyword arguments given to the output model
_analyze_summary(answered, contract_type) ==
    IF answered
    THEN [summary |-> "generated", contract_type |-> contract_type]
    ELSE [summary |-> "Unable to generate summary", contract_type |-> contract_type]

ClauseResponses ==
    Kwarg([clauses : Kwarg(ItemLists(ClauseItems)),
           total_clauses : Kwarg(SuppliedTotals)])
_extract_clauses(response) ==
    IF response = None
    THEN [clauses |-> <<>>, total_clauses |-> 0]
    ELSE ClausesOutput(response[1])

\* comparisons is keyed by the clause types searched for
_search_similar_clauses(available, found_clauses) ==
    IF ~available THEN {}
    ELSE {found_clauses[i].type : i \in 1..Len(found_clauses)}

RiskResponses ==
    Kwarg({[risks |-> None, missing_clauses |-> None,
            total_risks |-> None, total_missing |-> None],
           [risks |-> Some(<<CHOOSE r \in RiskItems : r.id = 1>>),
            missing_clauses |-> Some(<< <<"A">> >>),
            total_risks |-> Some(0), total_missing |-> None]})
_analyze_risks(response) ==
    IF response = None
    THEN [risks |-> <<>>, missing_clauses |-> <<>>,
          total_risks |-> 0, total_missing |-> 0]
    ELSE RisksOutput(response[1])

SuggestionResponses ==
    Kwarg({[suggestions |-> None, total_suggestions |-> None],
           [suggestions |-> Some(<<CHOOSE x \in SuggestionItems : x.id = 1>>),
            total_suggestions |-> Some(MaxItems + 1)]})
_generate_suggestions(response) ==
    IF response = None
    THEN [suggestions |-> <<>>, total_suggestions |-> 0]
    ELSE SuggestionsOutput(response[1])

\* found_types: the lowercased non-empty clause types (validated clause types
\* carry no surrounding whitespace, so strip() leaves them as they are)
found_types(found_clauses) ==
    {Lower(found_clauses[i].type) :
        i \in {i \in 1..Len(found_clauses) : Truthy(found_clauses[i].type)}}

\* (variant: only a found type that contains the standard type counts)
no_found_matches_one_way(standard_type, found) ==
    ~\E f \in found : IsSubstring(standard_type, Lower(f))

\* not any(standard_type in found.lower() or found.lower() in standard_type ...)
no_found_matches(standard_type, found) ==
    ~\E f \in found :
        IsSubstring(standard_type, Lower(f)) \/ IsSubstring(Lower(f), standard_type)

missing_of_category(standard_clauses, category, found) ==
    LET Unmatched(standard_clause) ==
            no_found_matches(Lower(standard_clause.type), found)
        kept == SelectSeq(DictGet(standard_clauses, category, <<>>), Unmatched)
    IN [i \in 1..Len(kept) |-> kept[i].type]

\* missing[:10]
Truncate(missing) ==
    SubSeq(missing, 1, IF Len(missing) < MaxMissing THEN Len(missing) ELSE MaxMissing)

\* (variant: a contract type without a profile is compared against the first
\* loaded profile)
_find_missing_clauses_fallback(sc, found_clauses, contract_type) ==
    LET standard_clauses ==
            get_standard_clauses_first_profile(sc, contract_type, INDIA)
        found == found_types(found_clauses)
    IN Truncate(missing_of_category(standard_clauses, "critical_clauses", found)
                \o missing_of_category(standard_clauses, "important_clauses", found))

\* the mapper is asked with the contract type alone: jurisdiction is 'INDIA'
_find_missing_clauses(sc, found_clauses, contract_type) ==
    LET standard_clauses == get_standard_clauses_for_type(sc, contract_type, INDIA)
        found == found_types(found_clauses)
    IN Truncate(missing_of_category(standard_clauses, "critical_clauses", found)
                \o missing_of_category(standard_clauses, "important_clauses", found))

\* the service was built, the mapper loaded; no contract uploaded yet
InitAnalysis ==
    /\ InitQuery
    /\ resource \in {Json(d) : d \in SampleDocuments \cap Documents}

\* the view's checks of the request, in order; None when it is accepted
upload_rejection(contract_file, contract_type) ==
    IF contract_file = "none" THEN Some("No contract file provided")
    ELSE IF ~Truthy(contract_type) THEN Some("Contract type is required")
    ELSE IF contract_file = "not_pdf" THEN Some("Only PDF files are allowed")
    ELSE IF contract_file = "too_big" THEN Some("File size exceeds 10MB limit")
    ELSE None

\* upload_and_analyze_contract: a rejected request changes nothing; an
\* accepted one creates the rows, builds the service and starts the thread;
\* if the service cannot be built the rows stay and no thread is started
UploadAndAnalyze ==
    /\ ret = NoCall
    /\ analysis = None
    /\ \E user \in Users, contract_file \in UploadedFiles,
          contract_type \in PostedTypes \cup {<<>>}, service_built \in BOOLEAN :
          LET rejection == upload_rejection(contract_file, contract_type)
          IN IF rejection # None
             THEN /\ ret' = [op |-> "upload_and_analyze_contract", user |-> user,
                             status |-> 400, message |-> rejection[1]]
                  /\ UNCHANGED <<analysis, job>>
             ELSE IF ~service_built
             THEN /\ ret' = [op |-> "upload_and_analyze_contract", user |-> user,
                             status |-> 500, message |-> "Error uploading contract"]
                  /\ analysis' = Some(NewAnalysis(user))
                  /\ UNCHANGED job
             ELSE /\ ret' = [op |-> "upload_and_analyze_contract", user |-> user,
                             status |-> 200,
                             message |-> "Contract uploaded and analysis started"]
                  /\ analysis' = Some(NewAnalysis(user))
                  /\ job' = NewJob(contract_type, INDIA)
    /\ UNCHANGED lifecycle

\* (variant: the except block raises again without saving the row)
Raise_row_unsaved(step, message) ==
    /\ UNCHANGED analysis
    /\ job' = [job EXCEPT !.pc = "raised", !.raised = Some(message),
                          !.steps = Append(@, step)]

\* analyze_contract's  except Exception  block: the row is marked failed and
\* saved, the exception raised again
Raise(step, message) ==
    /\ analysis' = Some([Row EXCEPT !.extraction_status = "failed",
                                    !.error_message = Some(message),
                                    !.processing_time = Some("elapsed")])
    /\ job' = [job EXCEPT !.pc = "raised", !.raised = Some(message),
                          !.steps = Append(@, step)]

\* step 1: both rows are fetched
FetchRecords ==
    /\ job.pc = "fetch"
    /\ analysis # None
    /\ job' = [job EXCEPT !.pc = "extract", !.steps = Append(@, "fetch")]
    /\ UNCHANGED <<lifecycle, ret, analysis>>

\* step 2
ExtractText ==
    /\ job.pc = "extract"
    /\ \E extracted \in Extractions :
          IF extraction_error(extracted) # None
          THEN Raise("extract", extraction_error(extracted)[1])
          ELSE /\ job' = [job EXCEPT !.pc = "summary",
                                     !.contract_text = Some(extracted),
                                     !.steps = Append(@, "extract")]
               /\ UNCHANGED analysis
    /\ UNCHANGED <<lifecycle, ret>>

\* step 3
AnalyzeSummary ==
    /\ job.pc = "summary"
    /\ \E answered \in BOOLEAN :
          job' = [job EXCEPT !.pc = "clauses",
                             !.summary_data =
                                 Some(_analyze_summary(answered, job.contract_type)),
                             !.steps = Append(@, "summary"),
                             !.defaulted =
                                 IF answered THEN @ ELSE @ \cup {"summary"}]
    /\ UNCHANGED <<lifecycle, ret, analysis>>

\* step 4
ExtractClauses ==
    /\ job.pc = "clauses"
    /\ \E response \in ClauseResponses :
          job' = [job EXCEPT !.pc = "chroma",
                             !.clauses_data = Some(_extract_clauses(response)),
                             !.steps = Append(@, "clauses"),
                             !.defaulted =
                                 IF response # None THEN @ ELSE @ \cup {"clauses"}]
    /\ UNCHANGED <<lifecycle, ret, analysis>>

\* step 5
SearchSimilarClauses ==
    /\ job.pc = "chroma"
    /\ \E available \in BOOLEAN :
          job' = [job EXCEPT !.pc = "risks",
                             !.chromadb_comparisons =
                                 Some(_search_similar_clauses(
                                          available, job.clauses_data[1].clauses)),
                             !.steps = Append(@, "chroma")]
    /\ UNCHANGED <<lifecycle, ret, analysis>>

\* (variant: a failed risk analysis is raised instead of defaulted)
AnalyzeRisks_raising ==
    /\ job.pc = "risks"
    /\ \E response \in RiskResponses :
          IF response = None
          THEN Raise("risks", "llm error")
          ELSE /\ job' = [job EXCEPT !.pc = "missing",
                                     !.risks_data = Some(_analyze_risks(response)),
                                     !.steps = Append(@, "risks")]
               /\ UNCHANGED analysis
    /\ UNCHANGED <<lifecycle, ret>>

\* step 6
AnalyzeRisks ==
    /\ job.pc = "risks"
    /\ \E response \in RiskResponses :
          job' = [job EXCEPT !.pc = "missing",
                             !.risks_data = Some(_analyze_risks(response)),
                             !.steps = Append(@, "risks"),
                             !.defaulted =
                                 IF response # None THEN @ ELSE @ \cup {"risks"}]
    /\ UNCHANGED <<lifecycle, ret, analysis>>

\* step 7, first call: the missing clauses for the posted contract type
FindMissingClauses ==
    /\ job.pc = "missing"
    /\ job' = [job EXCEPT !.pc = "suggest",
                          !.missing_clauses =
                              Some(_find_missing_clauses(
                                       Loaded, job.clauses_data[1].clauses,
                                       job.contract_type)),
                          !.steps = Append(@, "missing")]
    /\ UNCHANGED <<lifecycle, ret, analysis>>

\* step 7, second call
GenerateSuggestions ==
    /\ job.pc = "suggest"
    /\ \E response \in SuggestionResponses :
          job' = [job EXCEPT !.pc = "save",
                             !.suggestions_data = Some(_generate_suggestions(response)),
                             !.steps = Append(@, "suggest"),
                             !.defaulted =
                                 IF response # None THEN @ ELSE @ \cup {"suggest"}]
    /\ UNCHANGED <<lifecycle, ret, analysis>>

\* step 8, _save_analysis_results: the PDF report is generated and stored,
\* processing_time and analysed_at are set, error_message cleared and the row
\* saved; then analyze_contract returns its result.  If the report cannot be
\* produced the error is stored and raised.
SaveResults ==
    /\ job.pc = "save"
    /\ \E pdf_generated \in BOOLEAN :
          IF ~pdf_generated
          THEN Raise("save", "report error")
          ELSE /\ analysis' = Some([Row EXCEPT !.analysis_pdf = Some("analysis.pdf"),
                                               !.processing_time = Some("elapsed"),
                                               !.analysed_at = Some("now"),
                                               !.error_message = None])
               /\ job' = [job EXCEPT
                             !.pc = "returned",
                             !.steps = Append(@, "save"),
                             !.result = Some([status |-> "success",
                                              summary |-> job.summary_data[1],
                                              clauses |-> job.clauses_data[1],
                                              risks |-> job.risks_data[1],
                                              suggestions |-> job.suggestions_data[1]])]
    /\ UNCHANGED <<lifecycle, ret>>

\* {} : the object a result field holds when nothing was stored
EmptyObject == <<>>

\* summary = {};  if contract_analysis.summary: summary = json.loads(...)
\* a stored text is a file-like value: Json(x) parses to x, anything else
\* raises JSONDecodeError and the field stays {}
parsed_field(stored) ==
    IF stored = None THEN EmptyObject
    ELSE IF stored[1].kind = "json" THEN Some(stored[1].doc)
    ELSE EmptyObject

\* (variant: the requester is not compared with the contract's user)
GetAnalysisResults_any_user ==
    /\ ret = NoCall
    /\ \E user \in Users :
          ret' = IF analysis = None
                 THEN [op |-> "get_analysis_results", user |-> user,
                       status |-> 500, message |-> "Error fetching analysis"]
                 ELSE [op |-> "get_analysis_results", user |-> user,
                       status |-> 200, message |-> "success",
                       data |-> [analysis_status |-> Row.extraction_status,
                                 summary |-> parsed_field(Row.summary),
                                 clauses |-> parsed_field(Row.clauses),
                                 risks |-> parsed_field(Row.risks),
                                 suggestions |-> parsed_field(Row.suggestions),
                                 processing_time |-> Row.processing_time,
                                 error_message |-> Row.error_message,
                                 analysed_at |-> Row.analysed_at]]
    /\ UNCHANGED <<lifecycle, analysis, job>>

\* get_analysis_results: get_object_or_404 on a missing row raises Http404,
\* which the view's  except Exception  turns into a 500 response
GetAnalysisResults ==
    /\ ret = NoCall
    /\ \E user \in Users :
          ret' = IF analysis = None
                 THEN [op |-> "get_analysis_results", user |-> user,
                       status |-> 500, message |-> "Error fetching analysis"]
                 ELSE IF Row.user # user
                 THEN [op |-> "get_analysis_results", user |-> user,
                       status |-> 403, message |-> "Permission denied"]
                 ELSE [op |-> "get_analysis_results", user |-> user,
                       status |-> 200, message |-> "success",
                       data |-> [analysis_status |-> Row.extraction_status,
                                 summary |-> parsed_field(Row.summary),
                                 clauses |-> parsed_field(Row.clauses),
                                 risks |-> parsed_field(Row.risks),
                                 suggestions |-> parsed_field(Row.suggestions),
                                 processing_time |-> Row.processing_time,
                                 error_message |-> Row.error_message,
                                 analysed_at |-> Row.analysed_at]]
    /\ UNCHANGED <<lifecycle, analysis, job>>

NextAnalysis ==
    \/ UploadAndAnalyze
    \/ FetchRecords
    \/ ExtractText
    \/ AnalyzeSummary
    \/ ExtractClauses
    \/ SearchSimilarClauses
    \/ AnalyzeRisks
    \/ FindMissingClauses
    \/ GenerateSuggestions
    \/ SaveResults
    \/ GetAnalysisResults
    \/ Discard

AnalysisSpec == InitAnalysis /\ [][NextAnalysis]_vars

\* the steps of analyze_contract, run by the thread the view starts: a
\* started thread keeps running until analyze_contract returns or raises
AnalyzeContract ==
    \/ FetchRecords
    \/ ExtractText
    \/ AnalyzeSummary
    \/ ExtractClauses
    \/ SearchSimilarClauses
    \/ AnalyzeRisks
    \/ FindMissingClauses
    \/ GenerateSuggestions
    \/ SaveResults

AnalysisFairSpec == AnalysisSpec /\ WF_vars(AnalyzeContract)

\* ------------------------------------------------ the similarity search
\* ChromaManager.search_similar_clauses.  The manager is available when the
\* chromadb client could be created; the collection is obtained through
\* get_or_create_collection, which returns None when the client refuses;
\* collection.query either raises or answers with one list per query text.

CollectionNames == {<<"service", "agreement", "india">>, <<"nda", "india">>}
TopKs == 1..MaxItems
CollectionOutcomes == {"obtained", "refused"}

\* what collection.query does for one query text and n_results = top_k
QueryOutcomes(top_k) ==
    {[kind |-> "raises", hits |-> 0, with_distances |-> FALSE],
     [kind |-> "nothing", hits |-> 0, with_distances |-> FALSE]}
    \cup [kind : {"results"}, hits : 0..top_k, with_distances : BOOLEAN]

EmptyResults ==
    [ids |-> <<>>, documents |-> <<>>, metadatas |-> <<>>, distances |-> <<>>]

\* results['ids'][0] ... : the lists for the one query text
formatted_results(answer) ==
    [ids |-> [i \in 1..answer.hits |-> i],
     documents |-> [i \in 1..answer.hits |-> <<"standard_text", i>>],
     metadatas |-> [i \in 1..answer.hits |-> <<"metadata", i>>],
     distances |-> IF answer.with_distances
                   THEN [i \in 1..answer.hits |-> i] ELSE <<>>]

\* (variant: an error of the query is handed on to the caller)
search_similar_clauses_unguarded(available, collection, answer) ==
    IF ~available THEN EmptyResults
    ELSE IF collection = "refused" THEN EmptyResults
    ELSE IF answer.kind = "raises" THEN [raised |-> "query error"]
    ELSE IF answer.kind = "nothing" THEN EmptyResults
    ELSE formatted_results(answer)

search_similar_clauses(available, collection, answer) ==
    IF ~available THEN EmptyResults
    ELSE IF collection = "refused" THEN EmptyResults
    ELSE IF answer.kind = "raises" THEN EmptyResults
    ELSE IF answer.kind = "nothing" THEN EmptyResults
    ELSE formatted_results(answer)

SearchSimilar ==
    /\ ret = NoCall
    /\ \E available \in BOOLEAN, collection_name \in CollectionNames,
          top_k \in TopKs, collection \in CollectionOutcomes :
          \E answer \in QueryOutcomes(top_k) :
              ret' = [op |-> "search_similar_clauses", available |-> available,
                      collection_name |-> collection_name, top_k |-> top_k,
                      collection |-> collection, answer |-> answer,
                      result |-> search_similar_clauses(available, collection, answer)]
    /\ UNCHANGED <<lifecycle, records>>

NextChroma ==
    \/ SearchSimilar
    \/ Discard

ChromaSpec == Init /\ [][NextChroma]_vars

\* ------------------------------------------- the missing-clause step
\* _find_missing_clauses called on its own, with profiles long enough for
\* the limit of ten to cut the list.

\* 'A' followed by k times 'a'
LongType(k) == <<"A">> \o [i \in 1..k |-> "a"]

\* six critical clauses (the last one 'Ab'), six important ones, one optional
LongProfile ==
    [critical_clauses |->
         [i \in 1..6 |-> Clause(i, IF i = 6 THEN <<"A", "b">> ELSE LongType(i - 1),
                                "critical")],
     important_clauses |->
         [i \in 1..6 |-> Clause(6 + i, LongType(4 + i), "important")],
     optional_clauses |-> <<Clause(13, <<"A", "b", "b">>, "optional")>>]

\* a critical clause and an optional one
OptionalProfile ==
    ProfileOf(<< <<(<<"A">>), "critical">>, <<(<<"A", "b">>), "optional">> >>)

MissingDocuments ==
    SampleDocuments
    \cup {<<Item(SA_INDIA, LongProfile)>>,
          <<Item(SA_INDIA, OptionalProfile)>>,
          <<Item(NDA_INDIA, NdaProfile), Item(SA_INDIA, SampleProfile)>>}

\* the clauses handed over: a type may be empty, upper case, or longer than
\* a standard type
FoundClauses ==
    {[id |-> 1, type |-> t, text |-> "text"] :
        t \in {<<>>, <<"B">>, <<"A", "a">>, <<"A", "b", "b">>}}

InitMissing ==
    /\ resource \in {Json(d) : d \in MissingDocuments}
    /\ _instance = Some(1)
    /\ _standard_clauses = Some(resource.doc)
    /\ _mapper = Some(1)
    /\ allocated = 1
    /\ reads = 1
    /\ loads = 1
    /\ returned = {1}
    /\ calls = 1
    /\ pc = [t \in Threads |-> "idle"]
    /\ self_ = [t \in Threads |-> IF t = 1 THEN Some(1) ELSE None]
    /\ caller = [t \in Threads |-> IF t = 1 THEN "get_mapper" ELSE "none"]
    /\ exc = [t \in Threads |-> "none"]
    /\ ret = NoCall
    /\ analysis = None
    /\ job = NoJob

CallFindMissingClauses ==
    /\ CanQuery
    /\ \E found_clauses \in ItemLists(FoundClauses),
          contract_type \in ContractTypes \cup {<<"EMPLOYMENT">>} :
          ret' = [op |-> "_find_missing_clauses",
                  found_clauses |-> found_clauses,
                  contract_type |-> contract_type,
                  result |-> _find_missing_clauses(Loaded, found_clauses,
                                                   contract_type)]
    /\ UNCHANGED <<lifecycle, records>>

NextMissing ==
    \/ CallFindMissingClauses
    \/ Discard

MissingSpec == InitMissing /\ [][NextMissing]_vars

\* ---------------------------------------------------------- properties
\* The profile as the file declares it, for the scope of the last query.
ScopeKey == ret.contract_type \o ret.jurisdiction
ScopeLoaded == \E i \in 1..Len(resource.doc) : resource.doc[i].key = ScopeKey
FileTier(category) ==
    IF ScopeLoaded
    THEN LET p == resource.doc[CHOOSE i \in 1..Len(resource.doc) :
                                   resource.doc[i].key = ScopeKey].value
         IN IF category \in DOMAIN p THEN p[category] ELSE <<>>
    ELSE <<>>
FileTypes(category) == [i \in 1..Len(FileTier(category)) |-> FileTier(category)[i].type]
MissingKeys == <<"missing_critical", "missing_important", "missing_optional">>

\* some found name equals name once both are lowercased
CaseFoldFound(name, found) == \E i \in 1..Len(found) : Lower(found[i]) = Lower(name)

\* M lists, in T's order, exactly the entries of T at the positions in J
OrderedSelection(M, T, J) ==
    \E f \in [1..Len(M) -> 1..Len(T)] :
        /\ \A i, j \in 1..Len(M) : i < j => f[i] < f[j]
        /\ \A i \in 1..Len(M) : M[i] = T[f[i]]
        /\ {f[i] : i \in 1..Len(M)} = J

\* C1: find_missing_clauses reports, per tier and in the profile's order,
\* exactly the clause names that equal no found name after lowercasing; a
\* found name that differs only in letter case is never reported missing.
C1_MissingIsCaseFoldedComplement ==
    ret.op = "find_missing_clauses" =>
        \A k \in 1..3 :
            LET T == FileTypes(Categories[k])
                M == ret.result[MissingKeys[k]]
            IN OrderedSelection(M, T,
                   {i \in 1..Len(T) : ~CaseFoldFound(T[i], ret.found)})

\* C1 witness: two critical clauses, one found only in another letter case
\* and so not reported, the other reported.
C1_Witness ==
    /\ ret.op = "find_missing_clauses"
    /\ Len(FileTypes("critical_clauses")) = 2
    /\ Len(ret.result.missing_critical) = 1
    /\ \E i \in 1..2 :
          /\ FileTypes("critical_clauses")[i] \notin Range(ret.found)
          /\ CaseFoldFound(FileTypes("critical_clauses")[i], ret.found)
          /\ FileTypes("critical_clauses")[i] \notin Range(ret.result.missing_critical)

\* a is a proper part of b, letter case aside
ProperPart(a, b) == Lower(a) # Lower(b) /\ IsSubstring(Lower(a), Lower(b))

\* C2: a found name that is only a proper substring of a standard clause
\* name does not satisfy it: unless some found name equals the clause name
\* after case folding, the clause is reported missing in its tier.
C2_NoSubstringMatch ==
    ret.op = "find_missing_clauses" =>
        \A k \in 1..3 : \A n \in Range(FileTypes(Categories[k])) :
            ((\E i \in 1..Len(ret.found) : ProperPart(ret.found[i], n))
             /\ ~CaseFoldFound(n, ret.found))
            => n \in Range(ret.result[MissingKeys[k]])

\* C2 witness: a found name is a proper substring of a standard clause name
\* and that clause is reported missing.
C2_Witness ==
    /\ ret.op = "find_missing_clauses"
    /\ \E n \in Range(ret.result.missing_critical) :
          \E i \in 1..Len(ret.found) :
              /\ IsSubstring(ret.found[i], n)
              /\ ret.found[i] # n

\* C4 (as claimed): the result of find_missing_clauses carries total_missing,
\* the sum of the lengths of the three missing lists.
C4_TotalMissingIsSum ==
    ret.op = "find_missing_clauses" =>
        /\ "total_missing" \in DOMAIN ret.result
        /\ ret.result["total_missing"] =
               Len(ret.result.missing_critical) + Len(ret.result.missing_important)
               + Len(ret.result.missing_optional)

ProfileSize ==
    Len(FileTier("critical_clauses")) + Len(FileTier("important_clauses"))
    + Len(FileTier("optional_clauses"))
ProfileTypes ==
    Range(FileTypes("critical_clauses")) \cup Range(FileTypes("important_clauses"))
    \cup Range(FileTypes("optional_clauses"))
MissingCount ==
    Len(ret.result.missing_critical) + Len(ret.result.missing_important)
    + Len(ret.result.missing_optional)

\* C5: gap/complement law.  With the type names of all the profile's clauses
\* as found, find_missing_clauses reports nothing; with an empty found list it
\* reports every clause, as many names as the profile has clauses.
C5_GapComplement ==
    (ret.op = "find_missing_clauses" /\ ScopeLoaded) =>
        /\ ProfileTypes \subseteq Range(ret.found) =>
               /\ ret.result.missing_critical = <<>>
               /\ ret.result.missing_important = <<>>
               /\ ret.result.missing_optional = <<>>
        /\ ret.found = <<>> =>
               /\ MissingCount = ProfileSize
               /\ \A k \in 1..3 : ret.result[MissingKeys[k]] = FileTypes(Categories[k])

\* C5 witness: every clause of a profile with clauses in two tiers is found
\* and nothing is reported.
C5_Witness ==
    /\ ret.op = "find_missing_clauses"
    /\ ScopeLoaded
    /\ ProfileSize = 2
    /\ Len(FileTier("critical_clauses")) = 1
    /\ ProfileTypes = Range(ret.found)
    /\ MissingCount = 0

ScopedOps ==
    {"get_standard_clauses_for_type", "get_tier", "get_all_clauses_flat",
     "find_missing_clauses"}

C3_LoadedOnceOneInstance ==
    /\ loads <= 1
    /\ Cardinality(returned) <= 1

\* the file holds JSON in which every profile has the three tier fields
WellFormed(file) ==
    /\ file.kind = "json"
    /\ \A i \in 1..Len(file.doc) : Range(Categories) \subseteq DOMAIN file.doc[i].value

\* C7 (as claimed): a file that is absent, unparsable or holds a profile
\* lacking one of the three tier fields is never accepted: the load raises,
\* no data is stored and no caller obtains a mapper.
C7_MalformedNeverLoaded ==
    ~WellFormed(resource) =>
        /\ _standard_clauses = None
        /\ returned = {}
        /\ \A t \in Threads : pc[t] # "ctor_return"

\* C8: in a sequential run, once the data is loaded no later construction or
\* get_mapper() call opens the file again or replaces the data, and the data
\* is stored once.
C8_NoReloadAfterLoad ==
    [][/\ _standard_clauses # None =>
            /\ reads' = reads
            /\ _standard_clauses' = _standard_clauses
       /\ loads' <= 1]_vars

\* C8 witness: the data is loaded and two further calls have returned
\* without another read.
C8_Witness ==
    /\ NoCallUnderWay
    /\ _standard_clauses # None
    /\ calls >= 3
    /\ reads = 1

\* C9: in a sequential run every construction and every get_mapper() call
\* returns the one object held in ContractClauseMapper._instance.
C9_Singleton ==
    /\ Cardinality(returned) <= 1
    /\ returned # {} => _instance = Some(CHOOSE o \in returned : TRUE)
    /\ _mapper # None => _mapper = _instance

\* C9 witness: a get_mapper() call and a construction have both returned.
C9_Witness ==
    /\ NoCallUnderWay
    /\ resource.kind = "json"
    /\ returned # {}
    /\ \E t, u \in Threads : caller[t] = "get_mapper" /\ caller[u] = "ctor"

\* C10: round trip.  For every clause c that a per-tier getter returns,
\* get_clause_by_id(c.id) returns c, and the lookups by c.type find it:
\* is_clause_standard is true, get_clause_priority gives the getter's tier,
\* and the recommendations and standard text are c's.
C10_RoundTrip ==
    ret.op = "get_tier" =>
        \A c \in Range(ret.result) :
            /\ get_clause_by_id(Loaded, c.id, ret.contract_type, ret.jurisdiction)
                   = Some(c)
            /\ is_clause_standard(Loaded, c.type, ret.contract_type, ret.jurisdiction)
            /\ get_clause_priority(Loaded, c.type, ret.contract_type, ret.jurisdiction)
                   = Some(ret.tier)
            /\ get_clause_recommendations(Loaded, c.type, ret.contract_type,
                                          ret.jurisdiction) = Some(c.recommendations)
            /\ get_clause_standard_text(Loaded, c.type, ret.contract_type,
                                        ret.jurisdiction) = Some(c.standard_text)

\* C10 witness: the optional getter returned a clause of a profile that also
\* has a clause in another tier.
C10_Witness ==
    /\ ret.op = "get_tier"
    /\ ret.tier = "optional"
    /\ ret.result # <<>>
    /\ ProfileSize >= 2

\* the tier of the file that holds clause c of the last query's scope
TierHolding(c) ==
    CHOOSE k \in 1..3 : c \in Range(FileTier(Categories[k]))

\* C11: get_all_clauses_flat returns the critical clauses, then the important
\* clauses, then the optional clauses, each tier in the file's order; its
\* length is the sum of the three tier lengths and no critical clause comes
\* after a clause of another tier.
C11_FlatIsTierConcatenation ==
    ret.op = "get_all_clauses_flat" =>
        LET c == FileTier("critical_clauses")
            i == FileTier("important_clauses")
            o == FileTier("optional_clauses")
            flat == ret.result
        IN /\ Len(flat) = Len(c) + Len(i) + Len(o)
           /\ SubSeq(flat, 1, Len(c)) = c
           /\ SubSeq(flat, Len(c) + 1, Len(c) + Len(i)) = i
           /\ SubSeq(flat, Len(c) + Len(i) + 1, Len(flat)) = o
           /\ \A m, n \in 1..Len(flat) :
                  m < n => TierHolding(flat[m]) <= TierHolding(flat[n])

\* C11 witness: the flat list of a profile with one critical and one
\* important clause.
C11_Witness ==
    /\ ret.op = "get_all_clauses_flat"
    /\ Len(FileTier("critical_clauses")) = 1
    /\ Len(FileTier("important_clauses")) = 1
    /\ Len(ret.result) = 2

\* no two positions of the list hold the same value in the field
DistinctField(clauses, field) ==
    \A m, n \in 1..Len(clauses) : m # n => clauses[m][field] # clauses[n][field]

\* the clauses of all tiers a stored profile has
AllOfProfile(p) ==
    (IF "critical_clauses" \in DOMAIN p THEN p["critical_clauses"] ELSE <<>>)
    \o (IF "important_clauses" \in DOMAIN p THEN p["important_clauses"] ELSE <<>>)
    \o (IF "optional_clauses" \in DOMAIN p THEN p["optional_clauses"] ELSE <<>>)

C13_StandardIffExactType ==
    ret.op = "is_clause_standard" =>
        /\ ret.result \in BOOLEAN
        /\ ret.result <=> ret.clause_type \in ProfileTypes
        /\ ~ScopeLoaded => ret.result = FALSE

\* C13 witness: the name differs from a clause's type only in letter case
\* and the answer is false.
C13_Witness ==
    /\ ret.op = "is_clause_standard"
    /\ ScopeLoaded
    /\ ret.result = FALSE
    /\ \E n \in ProfileTypes : n # ret.clause_type /\ Lower(n) = Lower(ret.clause_type)

\* the tiers of the scope's profile, in search order, that hold the name
TiersHolding(name) == {k \in 1..3 : name \in Range(FileTypes(Categories[k]))}

\* C14: get_clause_priority returns the tier of the first clause whose type
\* is the given name, letter for letter, the tiers being searched in the order
\* critical, important, optional; the tier returned is that clause's priority
\* field; with no such clause, or no loaded profile, it returns none.
C14_PriorityIsFirstMatchingTier ==
    ret.op = "get_clause_priority" =>
        IF TiersHolding(ret.clause_type) = {}
        THEN ret.result = None
        ELSE LET k == CHOOSE k \in TiersHolding(ret.clause_type) :
                          \A l \in TiersHolding(ret.clause_type) : k <= l
                 T == FileTier(Categories[k])
                 n == CHOOSE n \in 1..Len(T) :
                          /\ T[n].type = ret.clause_type
                          /\ \A m \in 1..(n - 1) : T[m].type # ret.clause_type
             IN /\ ret.result = Some(Tiers[k])
                /\ ret.result = Some(T[n].priority)

\* C14 witness: the name is the type of an important clause of a profile
\* whose critical tier holds another clause.
C14_Witness ==
    /\ ret.op = "get_clause_priority"
    /\ ret.result = Some("important")
    /\ FileTier("critical_clauses") # <<>>

\* the last query asked again, of the mapper as it is now
Replay ==
    LET ct == ret.contract_type
        j == ret.jurisdiction
    IN CASE ret.op = "get_all_contract_types" -> get_all_contract_types(Loaded)
         [] ret.op = "get_standard_clauses_for_type" ->
                get_standard_clauses_for_type(Loaded, ct, j)
         [] ret.op = "get_tier" /\ ret.tier = "critical" ->
                get_critical_clauses_for_type(Loaded, ct, j)
         [] ret.op = "get_tier" /\ ret.tier = "important" ->
                get_important_clauses_for_type(Loaded, ct, j)
         [] ret.op = "get_tier" /\ ret.tier = "optional" ->
                get_optional_clauses_for_type(Loaded, ct, j)
         [] ret.op = "get_all_clauses_flat" -> get_all_clauses_flat(Loaded, ct, j)
         [] ret.op = "find_missing_clauses" ->
                find_missing_clauses(Loaded, ret.found, ct, j)
         [] ret.op = "get_clause_by_id" ->
                get_clause_by_id(Loaded, ret.clause_id, ct, j)
         [] ret.op = "is_clause_standard" ->
                is_clause_standard(Loaded, ret.clause_type, ct, j)
         [] ret.op = "get_clause_priority" ->
                get_clause_priority(Loaded, ret.clause_type, ct, j)
         [] ret.op = "get_clause_recommendations" ->
                get_clause_recommendations(Loaded, ret.clause_type, ct, j)
         [] ret.op = "get_clause_standard_text" ->
                get_clause_standard_text(Loaded, ret.clause_type, ct, j)

ReplayedOps ==
    {"get_all_contract_types", "get_standard_clauses_for_type", "get_tier",
     "get_all_clauses_flat", "find_missing_clauses", "get_clause_by_id",
     "is_clause_standard", "get_clause_priority", "get_clause_recommendations",
     "get_clause_standard_text"}

\* C15: no query changes the mapper.  After any sequence of queries the data
\* held is the data as loaded, the singleton references and the load counters
\* are as the load left them, and the last query asked again with the same
\* arguments returns the result it returned.
C15_QueriesArePure ==
    /\ _standard_clauses = Some(resource.doc)
    /\ _instance = Some(1) /\ _mapper = Some(1)
    /\ allocated = 1 /\ reads = 1 /\ loads = 1
    /\ ret.op \in ReplayedOps => Replay = ret.result

\* C15 witness: get_all_clauses_flat has returned the two clauses of a
\* profile with clauses in two tiers.
C15_Witness ==
    /\ ret.op = "get_all_clauses_flat"
    /\ Len(ret.result) = 2
    /\ FileTier("critical_clauses") # <<>>
    /\ FileTier("optional_clauses") # <<>>

\* the three tiers the file declares under key k, an absent tier being empty
TiersUnder(k) ==
    LET p == resource.doc[CHOOSE i \in 1..Len(resource.doc) :
                              resource.doc[i].key = k].value
    IN [c \in Range(Categories) |-> IF c \in DOMAIN p THEN p[c] ELSE <<>>]

\* key k is contract type ct, an underscore, jurisdiction j, letter for letter
KeyIs(k, ct, j) ==
    /\ Len(k) = Len(ct) + Len(j)
    /\ \A i \in 1..Len(ct) : k[i] = ct[i]
    /\ \A i \in 1..Len(j) : k[Len(ct) + i] = j[i]

C20_CountsDerivedFromLists ==
    LET Given(kwarg) == IF kwarg = None THEN <<>> ELSE kwarg[1]
    IN /\ ret.op = "ClausesOutput" =>
              /\ ret.result.clauses = Given(ret.kwargs.clauses)
              /\ ret.result.total_clauses = Len(ret.result.clauses)
       /\ ret.op = "RisksOutput" =>
              /\ ret.result.risks = Given(ret.kwargs.risks)
              /\ ret.result.missing_clauses = Given(ret.kwargs.missing_clauses)
              /\ ret.result.total_risks = Len(ret.result.risks)
              /\ ret.result.total_missing = Len(ret.result.missing_clauses)
       /\ ret.op = "SuggestionsOutput" =>
              /\ ret.result.suggestions = Given(ret.kwargs.suggestions)
              /\ ret.result.total_suggestions = Len(ret.result.suggestions)

\* C20 witness: a ClausesOutput built from one clause and a supplied count
\* of 3 carries the count 1.
C20_Witness ==
    /\ ret.op = "ClausesOutput"
    /\ ret.kwargs.total_clauses = Some(3)
    /\ Len(ret.result.clauses) = 1
    /\ ret.result.total_clauses = 1

\* the run returned status 'success'
RunSucceeded ==
    /\ job.pc = "returned"
    /\ job.result # None
    /\ job.result[1].status = "success"

ResultFields == <<"summary", "clauses", "risks", "suggestions">>

\* C16 (as claimed): once analyze_contract has returned status 'success',
\* the ContractAnalysis row holds the summary, clauses, risks and suggestions
\* as stored text, and get_analysis_results answers the owner with those four
\* results rather than empty objects.
C16_ResultsPersisted ==
    RunSucceeded =>
        /\ \A k \in 1..4 :
               /\ Row[ResultFields[k]] # None
               /\ parsed_field(Row[ResultFields[k]])
                      = Some(job.result[1][ResultFields[k]])
        /\ (ret.op = "get_analysis_results" /\ ret.status = 200) =>
               \A k \in 1..4 :
                   ret.data[ResultFields[k]] = Some(job.result[1][ResultFields[k]])

\* the posted contract type has no profile under its key for INDIA
NoProfileForJob == ~\E i \in 1..Len(resource.doc) :
                        KeyIs(resource.doc[i].key, job.contract_type, INDIA)

\* step s is among the steps the run has completed
StepDone(s) == \E i \in 1..Len(job.steps) : job.steps[i] = s

\* C17: when the missing-clause step runs for a contract type with no loaded
\* profile, it yields the empty list and raises nothing: the run goes on to
\* suggestion generation and to saving, the row is not marked failed by this
\* step, and the only way the run still fails is the save step itself.
C17_UnknownTypeContinues ==
    (job.missing_clauses # None /\ NoProfileForJob) =>
        /\ job.missing_clauses = Some(<<>>)
        /\ job.pc \in {"suggest", "save", "returned", "raised"}
        /\ job.pc \in {"suggest", "save"} =>
               /\ job.raised = None
               /\ Row.extraction_status = "processing"
        /\ job.pc \in {"save", "returned", "raised"} => StepDone("suggest")
        /\ job.pc = "returned" => StepDone("save") /\ RunSucceeded
        /\ job.pc = "raised" => job.steps[Len(job.steps)] = "save"

\* C17 witness: a run for a contract type without a profile, while another
\* profile with clauses is loaded, has gone through suggestion generation and
\* saving and returned.
C17_Witness ==
    /\ RunSucceeded
    /\ NoProfileForJob
    /\ resource.doc # <<>>
    /\ job.missing_clauses = Some(<<>>)
    /\ StepDone("suggest") /\ StepDone("save")

\* C22: get_all_contract_types returns the key of every profile of the
\* loaded document, each exactly once and in the document's order; for a
\* document with no profile it returns the empty list.
C22_AllKeysInLoadOrder ==
    ret.op = "get_all_contract_types" =>
        /\ Len(ret.result) = Len(resource.doc)
        /\ \A i \in 1..Len(resource.doc) : ret.result[i] = resource.doc[i].key
        /\ \A i, j \in 1..Len(ret.result) : i # j => ret.result[i] # ret.result[j]
        /\ resource.doc = <<>> => ret.result = <<>>

\* C22 witness: the keys of a document with two profiles were listed.
C22_Witness ==
    /\ ret.op = "get_all_contract_types"
    /\ Len(resource.doc) = 2
    /\ Len(ret.result) = 2

ResultKeys == {"ids", "documents", "metadatas", "distances"}

\* C21: search_similar_clauses always returns a result with the keys ids,
\* documents, metadatas and distances, never an exception; when the manager
\* is unavailable, the collection cannot be obtained or the query fails, all
\* four are empty lists.
C21_SearchNeverRaises ==
    ret.op = "search_similar_clauses" =>
        /\ DOMAIN ret.result = ResultKeys
        /\ (\/ ~ret.available
            \/ ret.collection = "refused"
            \/ ret.answer.kind = "raises")
           => \A k \in ResultKeys : ret.result[k] = <<>>

\* C21 witness: the manager was available, the collection obtained and the
\* query raised; the result is empty.
C21_Witness ==
    /\ ret.op = "search_similar_clauses"
    /\ ret.available
    /\ ret.collection = "obtained"
    /\ ret.answer.kind = "raises"
    /\ ret.result = EmptyResults

\* the row exists and its status is one of the two final ones
Settled ==
    /\ analysis # None
    /\ Row.extraction_status \in {"completed", "failed"}

\* C23 (as claimed): every row created with status 'processing' eventually
\* leaves 'processing' for 'completed' or 'failed'; none stays in
\* 'processing' forever.
C23_ProcessingEnds == (analysis # None) ~> Settled

\* the row is marked failed
RowFailed ==
    /\ analysis # None
    /\ Row.extraction_status = "failed"

\* the run ended by raising: nothing was returned
RunRaised ==
    /\ job.pc = "raised"
    /\ job.raised # None
    /\ job.result = None

JobTypeIsLoadedKey ==
    \E i \in 1..Len(resource.doc) : resource.doc[i].key = job.contract_type

\* the clause types of one tier of the profile stored under key k
TypesUnder(k, category) ==
    [i \in 1..Len(TiersUnder(k)[category]) |-> TiersUnder(k)[category][i].type]

\* C25 (as claimed): when the contract type posted is a loaded profile key
\* such as SERVICE_AGREEMENT_INDIA and no clause was extracted, the
\* missing-clause step returns that profile's critical clause types followed
\* by its important ones, not the empty list.
C25_KeyFormFindsProfile ==
    (/\ job.missing_clauses # None
     /\ JobTypeIsLoadedKey
     /\ job.clauses_data[1].clauses = <<>>)
    => job.missing_clauses[1] =
           Truncate(TypesUnder(job.contract_type, "critical_clauses")
                    \o TypesUnder(job.contract_type, "important_clauses"))

\* the profile stored for the contract type of the call, for INDIA
CallKey == ret.contract_type \o INDIA
CallLoaded == \E i \in 1..Len(resource.doc) : resource.doc[i].key = CallKey
CallTypes(category) ==
    IF CallLoaded THEN TypesUnder(CallKey, category) ELSE <<>>

\* critical types, then important types, in file order
ReportedTiers == CallTypes("critical_clauses") \o CallTypes("important_clauses")

\* some non-empty found type, lowercased, contains the lowercased standard
\* type or is contained in it
FoundCovers(standard_type) ==
    \E i \in 1..Len(ret.found_clauses) :
        LET f == Lower(ret.found_clauses[i].type)
        IN /\ f # <<>>
           /\ \/ IsSubstring(Lower(standard_type), f)
              \/ IsSubstring(f, Lower(standard_type))

Uncovered(standard_type) == ~FoundCovers(standard_type)
BeforeTruncation == SelectSeq(ReportedTiers, Uncovered)

\* C26: the list _find_missing_clauses returns is the first ten, at most, of
\* the critical types followed by the important types that no non-empty
\* found type covers (containing or contained, after lowercasing), in the
\* profile's order; an optional clause is never in it.
C26_MissingIsUncoveredPrefix ==
    ret.op = "_find_missing_clauses" =>
        /\ Len(ret.result) <= MaxMissing
        /\ Len(ret.result) =
               (IF Len(BeforeTruncation) < MaxMissing
                THEN Len(BeforeTruncation) ELSE MaxMissing)
        /\ \A i \in 1..Len(ret.result) : ret.result[i] = BeforeTruncation[i]
        /\ \A t \in Range(CallTypes("optional_clauses")) :
               t \notin Range(ReportedTiers) => t \notin Range(ret.result)

\* C26 witness: of twelve critical and important clauses one was covered by
\* the found type 'B'; eleven are missing and ten are returned.
C26_Witness ==
    /\ ret.op = "_find_missing_clauses"
    /\ Len(ReportedTiers) = 12
    /\ Len(ret.found_clauses) = 1
    /\ ret.found_clauses[1].type = <<"B">>
    /\ Len(BeforeTruncation) = 11
    /\ Len(ret.result) = MaxMissing

LLMSteps == {"summary", "clauses", "risks", "suggest"}

\* the fixed result each LLM step returns when the call, the parse or the
\* validation failed
SafeDefault(step) ==
    CASE step = "summary" ->
             [summary |-> "Unable to generate summary",
              contract_type |-> job.contract_type]
      [] step = "clauses" -> [clauses |-> <<>>, total_clauses |-> 0]
      [] step = "risks" ->
             [risks |-> <<>>, missing_clauses |-> <<>>,
              total_risks |-> 0, total_missing |-> 0]
      [] step = "suggest" -> [suggestions |-> <<>>, total_suggestions |-> 0]

StepData(step) ==
    CASE step = "summary" -> job.summary_data
      [] step = "clauses" -> job.clauses_data
      [] step = "risks" -> job.risks_data
      [] step = "suggest" -> job.suggestions_data

StepOrder ==
    <<"fetch", "extract", "summary", "clauses", "chroma", "risks", "missing",
      "suggest", "save">>

\* the steps entered so far are the first ones of the fixed order
StepsInOrder ==
    /\ Len(job.steps) <= Len(StepOrder)
    /\ \A i \in 1..Len(job.steps) : job.steps[i] = StepOrder[i]

\* text extraction raised: the reader failed or the text was too short
ExtractionFailed ==
    /\ job.pc = "raised"
    /\ job.steps = <<"fetch", "extract">>

BareResponse == {"op", "user", "status", "message"}

\* C29: get_analysis_results hands an analysis's status and results only to
\* the user who owns its contract; any other user gets status 403 with the
\* message 'Permission denied' and no data at all.
C29_OnlyOwnerReads ==
    (ret.op = "get_analysis_results" /\ analysis # None) =>
        /\ ret.user # Row.user =>
               /\ ret.status = 403
               /\ ret.message = "Permission denied"
               /\ DOMAIN ret = BareResponse
        /\ "data" \in DOMAIN ret =>
               /\ ret.user = Row.user
               /\ ret.status = 200
        /\ ret.user = Row.user =>
               /\ ret.status = 200
               /\ "data" \in DOMAIN ret

\* C29 witness: after a run that was reported successful, a user who does
\* not own the contract asked for the results and was refused.
C29_Witness ==
    /\ ret.op = "get_analysis_results"
    /\ RunSucceeded
    /\ Row.user = "owner"
    /\ ret.user = "other"
    /\ ret.status = 403

\* the file cannot be opened or parsed
FileFails == LoadError(resource) # "none"

\* C30 (as claimed): a caller is handed a mapper only when the standard
\* clauses are loaded (not None); when the load fails the caller gets the
\* exception, get_mapper's cached mapper stays unset, the data stays
\* unloaded, and every later call attempts the load again.
C30_NoMapperWithoutData ==
    /\ returned # {} => _standard_clauses # None
    /\ _mapper # None => _standard_clauses # None
    /\ FileFails =>
           /\ _standard_clauses = None
           /\ _mapper = None
           /\ returned = {}
           /\ \A t \in Threads :
                  (pc[t] = "idle" /\ caller[t] # "none") => exc[t] = LoadError(resource)
           /\ NoCallUnderWay => reads = calls
====
